---- MODULE Spec2Model ----
(***************************************************************************)
(* A model of the book-monitor core: the chapter parser, the TOC parser,   *)
(* the org-mode word counter and the BookBuilder that orchestrates them.   *)
(*                                                                         *)
(* Text is modelled at the granularity the parsers work at: a file's       *)
(* content is the sequence of its lines (content.split('\n')), and a line  *)
(* is a record saying what the line-oriented tests of the code see in it   *)
(* (which heading prefix it starts with, which links it holds, how many    *)
(* whitespace-separated words it carries).                                 *)
(***************************************************************************)
EXTENDS Naturals, Sequences, FiniteSets

\* ------------------------------------------------------------------ bounds
MaxChapterLines == 4    \* lines of a chapter file explored by SpecChapter
MaxWords == 2           \* words on one line of text
MaxTocLines == 4        \* lines of toc.org explored by Spec
MaxBuilds == 2          \* build() calls on one builder
MaxTokens == 5          \* pieces a text handed to remove_org_markup is made of

\* ------------------------------------------------------- lines of org text
\* One line of a chapter file.
\*   kind "h1"           "* Title"            (line.startswith('* '))
\*   kind "h2"           "** Title"           (line.startswith('** '))
\*   kind "text"         `words` plain words  (words = 0: a blank line)
\*   kind "directive"    "#+KEY: value"
\*   kind "comment"      "# remark"
\*   kind "src_begin"    "#+BEGIN_SRC"        kind "src_end"    "#+END_SRC"
\*   kind "quote_begin"  "#+BEGIN_QUOTE"      kind "quote_end"  "#+END_QUOTE"
\*   kind "example_begin" "#+BEGIN_EXAMPLE"   kind "example_end" "#+END_EXAMPLE"
\*   kind "drawer_begin" ":PROPERTIES:"       kind "drawer_end" ":END:"
\*   kind "id_decl"      "#+ID: guid"         (title holds the guid)
\*   kind "prop_id"      ":ID: guid"          (title holds the guid)
\* `title` is the heading text after the stars, `tags` says whether a
\* trailing " :tag:" cluster follows it, `colon` whether the heading text
\* itself holds a colon, `links` are the [[target][title]] links written on
\* the line, left to right.
Line(kind, title, tags, words) ==
    [kind |-> kind, title |-> title, tags |-> tags, words |-> words, links |-> <<>>,
     colon |-> FALSE]

\* A heading whose text holds a colon, as in "* Part 1: Intro".
WithColon(l) == [l EXCEPT !.colon = TRUE]

\* [[scheme:target][title]]
Link(scheme, target, title) == [scheme |-> scheme, target |-> target, title |-> title]
WithLinks(l, links) == [l EXCEPT !.links = links]

H1(title)   == Line("h1", title, FALSE, 0)
H2(title)   == Line("h2", title, FALSE, 0)
H2Tagged(title) == Line("h2", title, TRUE, 0)
Text(n)     == Line("text", "", FALSE, n)
Blank       == Text(0)
Directive   == Line("directive", "", FALSE, 0)
Comment     == Line("comment", "", FALSE, 0)
SrcBegin    == Line("src_begin", "", FALSE, 0)
SrcEnd      == Line("src_end", "", FALSE, 0)
DrawerBegin == Line("drawer_begin", "", FALSE, 0)
DrawerEnd   == Line("drawer_end", "", FALSE, 0)
QuoteBegin  == Line("quote_begin", "", FALSE, 0)
QuoteEnd    == Line("quote_end", "", FALSE, 0)
ExampleBegin == Line("example_begin", "", FALSE, 0)
ExampleEnd  == Line("example_end", "", FALSE, 0)
IdDecl(guid) == Line("id_decl", guid, FALSE, 0)
PropId(guid) == Line("prop_id", guid, FALSE, 0)

\* Sequences over S of length at most n.
SeqsUpTo(S, n) == UNION {[1..k -> S] : k \in 0..n}

RECURSIVE SumSeq(_)
SumSeq(s) == IF s = <<>> THEN 0 ELSE Head(s) + SumSeq(Tail(s))

\* str.strip() of a line is empty.
IsBlankLine(l) == l.kind = "text" /\ l.words = 0

\* content.strip() is empty: every line is whitespace.
IsBlankText(t) == \A i \in 1..Len(t) : IsBlankLine(t[i])

\* '\n'.join(lines).strip(): leading and trailing whitespace-only lines go.
RECURSIVE LStrip(_)
LStrip(t) == IF t # <<>> /\ IsBlankLine(Head(t)) THEN LStrip(Tail(t)) ELSE t

RECURSIVE RStrip(_)
RStrip(t) ==
    IF t # <<>> /\ IsBlankLine(t[Len(t)]) THEN RStrip(SubSeq(t, 1, Len(t) - 1)) ELSE t

Strip(t) == RStrip(LStrip(t))

\* ------------------------------------------------------------- count_words
\* Whitespace-separated tokens a line contributes to text.split().
WordsOf(l) ==
    CASE l.kind = "text"      -> l.words
      [] l.kind \in {"h1", "h2"} ->
            1 + (IF l.title # "" THEN 1 ELSE 0) + (IF l.tags THEN 1 ELSE 0)
      [] l.kind \in {"directive", "id_decl", "prop_id", "comment"} -> 2
      [] OTHER -> 1

\* re.sub(begin .*? end, '', DOTALL): the leftmost begin line, up to the first
\* end line after it, is deleted together with everything in between; the
\* scan resumes after the end line.  A begin with no later end stays.
RECURSIVE FirstAt(_, _, _)
FirstAt(t, kinds, from) ==
    IF from > Len(t) THEN 0
    ELSE IF t[from].kind \in kinds THEN from
    ELSE FirstAt(t, kinds, from + 1)

RECURSIVE StripSpans(_, _, _, _)
StripSpans(t, beginKind, endKind, from) ==
    LET b == FirstAt(t, {beginKind}, from)
        e == IF b = 0 THEN 0 ELSE FirstAt(t, {endKind}, b + 1)
    IN  IF b = 0 \/ e = 0 THEN t
        ELSE StripSpans([i \in 1..Len(t) |-> IF i >= b /\ i <= e THEN Blank ELSE t[i]],
                        beginKind, endKind, e + 1)

\* re.sub(r'^#\+.*$', '', MULTILINE): every line that starts with "#+".
StripDirectives(t) ==
    [i \in 1..Len(t) |->
        IF t[i].kind \in {"directive", "id_decl", "src_begin", "src_end",
                          "quote_begin", "quote_end", "example_begin", "example_end"}
        THEN Blank
        ELSE t[i]]

\* re.sub(r':PROPERTIES:.*?:END:', '', DOTALL | IGNORECASE)
StripDrawers(t) == StripSpans(t, "drawer_begin", "drawer_end", 1)

\* re.sub(r':[a-zA-Z0-9_@#%:]+:', ''): tag clusters, and with them a
\* ":PROPERTIES:" or ":END:" the drawer pass left alone and the ":ID:" of an
\* ":ID: guid" line, whose guid stays as one word.
StripTagClusters(t) ==
    [i \in 1..Len(t) |->
        IF t[i].kind \in {"drawer_begin", "drawer_end"} THEN Blank
        ELSE IF t[i].kind = "prop_id" THEN Text(1)
        ELSE [t[i] EXCEPT !.tags = FALSE]]

\* A pass that leaves a three-word notice where a comment was.
StripComments_noticed(t) ==
    [i \in 1..Len(t) |-> IF t[i].kind = "comment" THEN Text(3) ELSE t[i]]

\* re.sub(r'^#[^+].*$', '', MULTILINE)
StripComments(t) ==
    [i \in 1..Len(t) |-> IF t[i].kind = "comment" THEN Blank ELSE t[i]]

\* re.sub(r'#\+BEGIN_SRC.*?#\+END_SRC', '', DOTALL | IGNORECASE), applied to
\* what the earlier passes left.
StripSrcBlocks(t) == StripSpans(t, "src_begin", "src_end", 1)

\* re.sub(r'#\+BEGIN_EXAMPLE.*?#\+END_EXAMPLE', '', DOTALL | IGNORECASE)
StripExampleBlocks(t) == StripSpans(t, "example_begin", "example_end", 1)

\* re.sub(r'#\+BEGIN_QUOTE.*?#\+END_QUOTE', '', DOTALL | IGNORECASE)
StripQuoteBlocks(t) == StripSpans(t, "quote_begin", "quote_end", 1)

count_words(text) ==
    IF text = <<>> THEN 0
    ELSE LET t1 == StripDirectives(text)
             t2 == StripDrawers(t1)
             t3 == StripTagClusters(t2)
             t4 == StripComments(t3)
             t5 == StripSrcBlocks(t4)
             t6 == StripExampleBlocks(t5)
             t7 == StripQuoteBlocks(t6)
         IN  SumSeq([i \in 1..Len(t7) |-> WordsOf(t7[i])])

\* ------------------------------------------ remove_org_markup, extract_org_links
\* Here a text is the sequence of its characters.
\* The first position from `from` on where a character of set cs stands
\* (0: none).
RECURSIVE NextChar(_, _, _)
NextChar(t, cs, from) ==
    IF from > Len(t) THEN 0
    ELSE IF t[from] \in cs THEN from
    ELSE NextChar(t, cs, from + 1)

\* re.sub(r'D([^D]+)D', r'\1', t) for a set D of delimiter characters, from
\* position i on: a delimiter, one or more characters that are no delimiter,
\* and a delimiter again lose the two delimiters; matches are taken leftmost
\* and do not overlap.
RECURSIVE Unwrap(_, _, _)
Unwrap(t, D, i) ==
    IF i > Len(t) THEN <<>>
    ELSE LET j == NextChar(t, D, i + 1)
         IN  IF t[i] \in D /\ j > i + 1
             THEN SubSeq(t, i + 1, j - 1) \o Unwrap(t, D, j + 1)
             ELSE <<t[i]>> \o Unwrap(t, D, i + 1)

NoMatch == [ok |-> FALSE, url |-> <<>>, desc |-> <<>>, end |-> 0]

\* \[\[([^\]]+)\]\[([^\]]+)\]\] matched at position i: "[[", one or more
\* characters up to the first "]", "][", one or more characters up to the
\* next "]", and "]]".
DescribedAt(t, i) ==
    IF ~(i + 1 <= Len(t) /\ t[i] = "[" /\ t[i + 1] = "[") THEN NoMatch
    ELSE LET j == NextChar(t, {"]"}, i + 2)
             k == IF j = 0 THEN 0 ELSE NextChar(t, {"]"}, j + 2)
         IN  IF /\ j > i + 2
                /\ j + 1 <= Len(t) /\ t[j + 1] = "["
                /\ k > j + 2
                /\ k + 1 <= Len(t) /\ t[k + 1] = "]"
             THEN [ok |-> TRUE, url |-> SubSeq(t, i + 2, j - 1),
                   desc |-> SubSeq(t, j + 2, k - 1), end |-> k + 1]
             ELSE NoMatch

\* \[\[([^\]]*)\]\] (least = 0) or \[\[([^\]]+)\]\] (least = 1) matched at
\* position i.
BareAt(t, i, least) ==
    IF ~(i + 1 <= Len(t) /\ t[i] = "[" /\ t[i + 1] = "[") THEN NoMatch
    ELSE LET j == NextChar(t, {"]"}, i + 2)
         IN  IF j >= i + 2 + least /\ j + 1 <= Len(t) /\ t[j + 1] = "]"
             THEN [ok |-> TRUE, url |-> SubSeq(t, i + 2, j - 1),
                   desc |-> SubSeq(t, i + 2, j - 1), end |-> j + 1]
             ELSE NoMatch

\* re.sub of the described-link pattern from position i on: every match is
\* replaced by its description (keep = TRUE) or by nothing (keep = FALSE).
RECURSIVE SubDescribed(_, _, _)
SubDescribed(t, i, keep) ==
    IF i > Len(t) THEN <<>>
    ELSE LET m == DescribedAt(t, i)
         IN  IF m.ok
             THEN (IF keep THEN m.desc ELSE <<>>) \o SubDescribed(t, m.end + 1, keep)
             ELSE <<t[i]>> \o SubDescribed(t, i + 1, keep)

\* re.sub(r'\[\[([^\]]*)\]\]', r'\1', t) from position i on.
RECURSIVE SubBare(_, _)
SubBare(t, i) ==
    IF i > Len(t) THEN <<>>
    ELSE LET m == BareAt(t, i, 0)
         IN  IF m.ok THEN m.url \o SubBare(t, m.end + 1)
             ELSE <<t[i]>> \o SubBare(t, i + 1)

remove_org_markup(text) ==
    IF text = <<>> THEN <<>>
    ELSE LET t1 == Unwrap(text, {"*"}, 1)
             t2 == Unwrap(t1, {"/"}, 1)
             t3 == Unwrap(t2, {"_"}, 1)
             t4 == Unwrap(t3, {"+"}, 1)
             t5 == Unwrap(t4, {"~", "="}, 1)
             t6 == SubDescribed(t5, 1, TRUE)
         IN  SubBare(t6, 1)

\* re.findall of the described-link pattern, and of the bare-link pattern
\* \[\[([^\]]+)\]\], from position i on, as (url, description) pairs.
RECURSIVE FindDescribed(_, _)
FindDescribed(t, i) ==
    IF i > Len(t) THEN <<>>
    ELSE LET m == DescribedAt(t, i)
         IN  IF m.ok THEN <<<<m.url, m.desc>>>> \o FindDescribed(t, m.end + 1)
             ELSE FindDescribed(t, i + 1)

RECURSIVE FindBare(_, _)
FindBare(t, i) ==
    IF i > Len(t) THEN <<>>
    ELSE LET m == BareAt(t, i, 1)
         IN  IF m.ok THEN <<<<m.url, m.url>>>> \o FindBare(t, m.end + 1)
             ELSE FindBare(t, i + 1)

extract_org_links(text) ==
    IF text = <<>> THEN <<>>
    ELSE LET text_without_desc_links == SubDescribed(text, 1, FALSE)
         IN  FindDescribed(text, 1) \o FindBare(text_without_desc_links, 1)

\* ------------------------------------------------------------ ChapterParser
\* A file of the book directory: absent, present but unreadable, or readable
\* with `content`.
File(exists, readable, content) ==
    [exists |-> exists, readable |-> readable, content |-> content]
Missing     == File(FALSE, FALSE, <<>>)
Unreadable  == File(TRUE, FALSE, <<>>)
Readable(c) == File(TRUE, TRUE, c)

\* Sections numbered from one.
Section_oneBased(title, content, order) ==
    [title |-> title, content |-> content,
     word_count |-> count_words(content), order |-> order + 1]

\* title_line = line[2:].strip(), or line[3:].strip(): the heading text and
\* the tag cluster after it.
title_line(line) ==
    IF ~line.tags THEN line.title
    ELSE IF line.title = "" THEN ":tag:"
    ELSE line.title \o " :tag:"

\* re.match(r'^([^:]+?)(?:\s+:[a-zA-Z0-9_:]+:)?$', title_line) matches: group 1
\* has at least one character and cannot hold a colon.
title_match(line) == line.title # "" /\ ~line.colon

\* The title taken from a heading line: group 1 of the match, which is the
\* heading text, or all of title_line when there is no match.
HeadingTitle(line) == IF title_match(line) THEN line.title ELSE title_line(line)

\* Section(title, content, order) with word_count overridden by count_words.
Section(title, content, order) ==
    [title |-> title, content |-> content,
     word_count |-> count_words(content), order |-> order]

\* The loop of _extract_sections from line i on: `open` says that
\* current_section is not None, `cur` is current_section, `buf` is
\* current_content_lines.
RECURSIVE SectionsLoop(_, _, _, _, _, _)
SectionsLoop(lines, i, sections, open, cur, buf) ==
    LET flushed == IF open
                   THEN Append(sections, Section(cur, Strip(buf), Len(sections)))
                   ELSE sections
    IN  IF i > Len(lines) THEN flushed
        ELSE IF lines[i].kind = "h2"
             THEN SectionsLoop(lines, i + 1, flushed, TRUE, HeadingTitle(lines[i]), <<>>)
        ELSE IF open
             THEN SectionsLoop(lines, i + 1, sections, open, cur, Append(buf, lines[i]))
        ELSE SectionsLoop(lines, i + 1, sections, open, cur, buf)

_extract_sections(chapter_content) ==
    SectionsLoop(chapter_content, 1, <<>>, FALSE, "", <<>>)

\* Chapter(title) followed by add_section for every extracted section.
Chapter(title, sections) == [title |-> title, sections |-> sections]
NoChapter == Chapter("", <<>>)

\* Chapter.calculate_word_count
calculate_word_count(chapter) ==
    SumSeq([i \in 1..Len(chapter.sections) |-> chapter.sections[i].word_count])

\* What a call gives back: an exception, None, or a value.
Raise(exc, details) == [tag |-> "raise", exc |-> exc, details |-> details, value |-> NoChapter]
ReturnNone          == [tag |-> "none", exc |-> "", details |-> "", value |-> NoChapter]
Return(v)           == [tag |-> "value", exc |-> "", details |-> "", value |-> v]

\* chapter_start and chapter_end of _extract_chapter (0: no such line).
ChapterStart(lines) == FirstAt(lines, {"h1"}, 1)

\* A chapter that runs to the end of the file.
ChapterEnd_eof(lines) == Len(lines) + 1

ChapterEnd(lines) ==
    LET n == FirstAt(lines, {"h1"}, ChapterStart(lines) + 1)
    IN  IF n = 0 THEN Len(lines) + 1 ELSE n

_extract_chapter(content) ==
    LET start == ChapterStart(content)
    IN  IF start = 0 THEN ReturnNone
        ELSE IF HeadingTitle(content[start]) = "" THEN ReturnNone
        ELSE LET chapter_lines == SubSeq(content, start, ChapterEnd(content) - 1)
             IN  Return(Chapter(HeadingTitle(content[start]),
                                _extract_sections(chapter_lines)))

\* A parser that treats a whitespace-only file as an error, as TocParser does.
ChapterParser_parse_blankRaises(file) ==
    IF ~file.exists THEN Raise("ParseError", "Unexpected error reading file")
    ELSE IF ~file.readable THEN Raise("ParseError", "Permission denied reading chapter file")
    ELSE IF IsBlankText(file.content) THEN Raise("ParseError", "Chapter file is empty")
    ELSE _extract_chapter(file.content)

\* ChapterParser(file_path).parse().  open() of an absent file raises the
\* builtin FileNotFoundError; the name FileNotFoundError in this module is
\* utils.exceptions.FileNotFoundError, which it is not an instance of, so the
\* `except Exception` clause turns it into a ParseError.
ChapterParser_parse(file) ==
    IF ~file.exists THEN Raise("ParseError", "Unexpected error reading file")
    ELSE IF ~file.readable THEN Raise("ParseError", "Permission denied reading chapter file")
    ELSE IF IsBlankText(file.content) THEN ReturnNone
    ELSE _extract_chapter(file.content)

\* ---------------------------------------------------------------- TocParser
\* The Python None in the filename slot of a part marker; no file is called so.
None == "<None>"

Entry(filename, title) == [filename |-> filename, title |-> title]

\* The names a directory listing of the book directory can hold, in the order
\* glob.glob returns them.
GlobOrder == <<"a.org", "b.org", "c.org", "toc.org">>
FileNames == {GlobOrder[i] : i \in 1..Len(GlobOrder)}
ChapterFiles == FileNames \ {"toc.org"}

\* The loop of _extract_first_section from line i on.
RECURSIVE FirstSectionLoop(_, _, _, _)
FirstSectionLoop(lines, i, first_heading_found, section_lines) ==
    IF i > Len(lines) THEN section_lines
    ELSE IF lines[i].kind = "h1"
         THEN IF first_heading_found THEN section_lines
              ELSE FirstSectionLoop(lines, i + 1, TRUE, Append(section_lines, lines[i]))
    ELSE IF first_heading_found
         THEN FirstSectionLoop(lines, i + 1, TRUE, Append(section_lines, lines[i]))
    ELSE FirstSectionLoop(lines, i + 1, FALSE, section_lines)

\* A scan that takes the whole file for the first section.
_extract_first_section_whole(content) == content

_extract_first_section(content) == FirstSectionLoop(content, 1, FALSE, <<>>)

\* str.lower() on the guids written in the files explored.
Lower(guid) == IF guid = "G1" THEN "g1" ELSE guid

\* A search that tells upper case from lower case.
DeclaresGuid_caseSensitive(file, guid) ==
    \E i \in 1..Len(file.content) :
        /\ file.content[i].kind \in {"id_decl", "prop_id"}
        /\ file.content[i].title = guid

\* A file declares guid on a "#+ID:" or ":ID:" line; re.IGNORECASE makes the
\* guid match whatever its case.
DeclaresGuid(file, guid) ==
    \E i \in 1..Len(file.content) :
        /\ file.content[i].kind \in {"id_decl", "prop_id"}
        /\ Lower(file.content[i].title) = Lower(guid)

\* _resolve_guid_to_filename: the first file of the listing that can be read
\* and declares the guid; None when there is none.
RECURSIVE ResolveLoop(_, _, _)
ResolveLoop(d, guid, i) ==
    IF i > Len(GlobOrder) THEN None
    ELSE LET file == d[GlobOrder[i]]
         IN  IF file.exists /\ file.readable /\ DeclaresGuid(file, guid)
             THEN GlobOrder[i]
             ELSE ResolveLoop(d, guid, i + 1)

_resolve_guid_to_filename(d, guid) == ResolveLoop(d, guid, 1)

\* A link the patterns \[\[file:([^\]]+)\]\[([^\]]+)\]\] and
\* \[\[id:([^\]]+)\]\[([^\]]+)\]\] match and whose parts survive strip().
Matches(link, scheme) == link.scheme = scheme /\ link.target # "" /\ link.title # ""

\* The entries one line contributes after the part test: its file links, then
\* its id links that resolve.
FileEntries(line) ==
    LET ms == SelectSeq(line.links, LAMBDA k : Matches(k, "file"))
    IN  [i \in 1..Len(ms) |-> Entry(ms[i].target, ms[i].title)]

IdEntries(d, line) ==
    LET ms == SelectSeq(line.links, LAMBDA k : Matches(k, "id"))
        rs == SelectSeq(ms, LAMBDA k : _resolve_guid_to_filename(d, k.target) # None)
    IN  [i \in 1..Len(rs) |-> Entry(_resolve_guid_to_filename(d, rs[i].target), rs[i].title)]

\* Every second-level heading is a part, linked or not.
IsPartLine_anyHeading(line) ==
    /\ line.kind = "h2"
    /\ line.title # "" \/ line.links # <<>>

\* ^\*\*\s+(.+)$ matches and the line holds no file: or id: link.
IsPartLine(line) ==
    /\ line.kind = "h2"
    /\ line.title # "" \/ line.links # <<>>
    /\ \A i \in 1..Len(line.links) :
          ~(Matches(line.links[i], "file") \/ Matches(line.links[i], "id"))

RECURSIVE ChaptersLoop(_, _, _, _)
ChaptersLoop(d, lines, i, items) ==
    IF i > Len(lines) THEN items
    ELSE IF IsPartLine(lines[i])
         THEN ChaptersLoop(d, lines, i + 1, Append(items, Entry(None, lines[i].title)))
    ELSE ChaptersLoop(d, lines, i + 1,
                      items \o FileEntries(lines[i]) \o IdEntries(d, lines[i]))

_extract_chapters(d, content) ==
    ChaptersLoop(d, _extract_first_section(content), 1, <<>>)

\* TocParser(toc_path).parse() in directory d: the exception raised, or the
\* list of entries.
TocRaise(exc, details) == [tag |-> "raise", exc |-> exc, details |-> details, items |-> <<>>]
TocReturn(items)       == [tag |-> "value", exc |-> "", details |-> "", items |-> items]

TocParser_parse(d) ==
    LET file == d["toc.org"]
    IN  IF ~file.exists
        THEN TocRaise("FileNotFoundError", "TOC file is required for building the book")
        ELSE IF ~file.readable
        THEN TocRaise("ParseError", "Permission denied reading TOC file")
        ELSE IF IsBlankText(file.content)
        THEN TocRaise("ParseError", "TOC file is empty")
        ELSE TocReturn(_extract_chapters(d, file.content))

\* -------------------------------------------------------------- BookBuilder
\* Paths a builder can be constructed on: the empty string, a path that does
\* not exist, a regular file, and the book directory whose files `dir` holds.
Paths == {"", "nodir", "afile", "book"}
path_exists(p) == p \in {"afile", "book"}
path_isdir(p)  == p = "book"

\* A constructor that also insists on toc.org being there.
InitError_needsToc(d, directory_path) ==
    IF directory_path = "" THEN "Directory path cannot be empty"
    ELSE IF ~path_exists(directory_path) THEN "Directory does not exist"
    ELSE IF ~path_isdir(directory_path) THEN "Path is not a directory"
    ELSE IF ~d["toc.org"].exists THEN "No toc.org in directory"
    ELSE ""

\* BookBuilder.__init__ with the book directory holding d: the ConfigError
\* detail raised, "" when it succeeds.
InitError(d, directory_path) ==
    IF directory_path = "" THEN "Directory path cannot be empty"
    ELSE IF ~path_exists(directory_path) THEN "Directory does not exist"
    ELSE IF ~path_isdir(directory_path) THEN "Path is not a directory"
    ELSE ""

\* Book(title="Book Monitor", author="Unknown") after add_chapter for each
\* element of chapters.
Book(chapters) == [title |-> "Book Monitor", author |-> "Unknown", chapters |-> chapters]

\* add_chapter inserting at the front.
add_chapter_front(chapters, chapter) == <<chapter>> \o chapters

\* Book.add_chapter: self.chapters.append(chapter)
add_chapter(chapters, chapter) == Append(chapters, chapter)

\* str(None) is "None"; a filename is itself.
Str(filename) == IF filename = None THEN "None" ELSE filename

\* str(e) of the repository's exceptions (message, ": ", details) and of a
\* TypeError, as the pieces the text is put together from.
ExcStr(r, directory_path, filename) ==
    CASE r.exc = "ParseError" ->
            <<"Parse error in ", directory_path, "/", filename, ": ", r.details>>
      [] r.exc = "FileNotFoundError" ->
            <<"File not found: ", directory_path, "/", filename, ": ", r.details>>
      [] OTHER -> <<r.details>>

\* _parse_chapter: os.path.join(directory_path, None) raises TypeError before
\* a ChapterParser exists.
_parse_chapter(d, filename) ==
    IF filename = None
    THEN Raise("TypeError", "join() argument must be str, bytes, or os.PathLike object, not 'NoneType'")
    ELSE ChapterParser_parse(d[filename])

\* A diagnostic that starts with the file name: "<filename>: <message>".
Diagnostic_bare(r, directory_path, filename) ==
    IF r.tag = "none" THEN <<Str(filename), ": ", "returned no content">>
    ELSE <<Str(filename), ": ">> \o ExcStr(r, directory_path, filename)

\* A diagnostic that leaves the file name out.
Diagnostic_anonymous(r, directory_path, filename) ==
    IF r.tag = "none" THEN <<"Chapter returned no content">>
    ELSE <<"Chapter failed: ", r.details>>

\* The diagnostic build() appends for an entry whose _parse_chapter gave r.
Diagnostic(r, directory_path, filename) ==
    IF r.tag = "none"
    THEN <<"Chapter ", Str(filename), " returned no content">>
    ELSE IF r.exc \in {"FileNotFoundError", "ParseError"}
    THEN <<"Chapter ", Str(filename), ": ">> \o ExcStr(r, directory_path, filename)
    ELSE <<"Chapter ", Str(filename), ": Unexpected error - ">> \o ExcStr(r, directory_path, filename)

\* The for loop of build() from entry i on.  chapters is book.chapters, errs
\* is self.errors, calls lists the files a ChapterParser was run on.
RECURSIVE BuildLoop(_, _, _, _, _, _, _)
BuildLoop(d, directory_path, chapter_list, i, chapters, errs, calls) ==
    IF i > Len(chapter_list)
    THEN [chapters |-> chapters, errors |-> errs, calls |-> calls]
    ELSE LET filename == chapter_list[i].filename
             r == _parse_chapter(d, filename)
             calls2 == IF filename = None THEN calls ELSE Append(calls, filename)
         IN  IF r.tag = "value"
             THEN BuildLoop(d, directory_path, chapter_list, i + 1,
                            add_chapter(chapters, r.value), errs, calls2)
             ELSE BuildLoop(d, directory_path, chapter_list, i + 1, chapters,
                            Append(errs, Diagnostic(r, directory_path, filename)), calls2)

\* build() without the reset of self.errors.
ClearErrors_keep(errs) == errs

\* self.errors = [] at the start of build().
ClearErrors(errs) == <<>>

\* Every TOC failure rewrapped as ParseError.
TocFailure_wrapAll(exc) == "ParseError"

\* The exception build() lets out when TocParser raised exc.
TocFailure(exc) ==
    IF exc \in {"FileNotFoundError", "ParseError"} THEN exc ELSE "ParseError"

\* build() without the successful_chapters == 0 test.
BuildReturn_always(successful_chapters) == "book"

\* What build() decides once the loop is over: "book" or "none".
BuildReturn(successful_chapters) == IF successful_chapters = 0 THEN "none" ELSE "book"

\* An empty chapter list reported as a ParseError.
EmptyTocResult_raise(errs0) ==
    [raised |-> "ParseError", returned |-> "", created |-> FALSE,
     chapters |-> <<>>, errors |-> errs0, calls |-> <<>>]

\* `if not chapter_list: return None`, with self.errors = errs0.
EmptyTocResult(errs0) ==
    [raised |-> "", returned |-> "none", created |-> FALSE,
     chapters |-> <<>>, errors |-> errs0, calls |-> <<>>]

\* build() on directory d with self.errors = errs: the exception raised ("" if
\* none), what is returned ("book", "none", or "" when it raised), whether the
\* Book object was created, its chapters, self.errors afterwards, and the
\* ChapterParser calls made.
build(d, directory_path, errs) ==
    LET errs0 == ClearErrors(errs)
        toc == TocParser_parse(d)
        loop == BuildLoop(d, directory_path, toc.items, 1, <<>>, errs0, <<>>)
    IN  IF toc.tag = "raise"
        THEN [raised |-> TocFailure(toc.exc), returned |-> "", created |-> FALSE,
              chapters |-> <<>>, errors |-> errs0, calls |-> <<>>]
        ELSE IF toc.items = <<>>
        THEN EmptyTocResult(errs0)
        ELSE [raised |-> "", returned |-> BuildReturn(Len(loop.chapters)), created |-> TRUE,
              chapters |-> loop.chapters, errors |-> loop.errors, calls |-> loop.calls]

\* build() adding to the Book of the previous build instead of a new one.
AllocBook_reuse(h, chapters) ==
    IF h = <<>> THEN <<Book(chapters)>>
    ELSE [h EXCEPT ![Len(h)] = Book(@.chapters \o chapters)]

\* The Book objects alive after build() created one with these chapters.
AllocBook(h, chapters) == Append(h, Book(chapters))

\* ----------------------------------------------------------------- app.py
\* book_data = None: no Book cached.  A cached Book is its index in heap.
NoBook == 0

\* app.config without the BOOK_DIRECTORY key, as Config leaves it.
NotConfigured == None

\* An except clause that leaves the cache as it was.
ExceptReset_keep(cached) == cached

\* `book_data = None` in both except clauses of load_book_data().
ExceptReset(cached) == NoBook

\* What load_book_data() raises when its try block raised exc.
LoadFailure(exc) ==
    IF exc \in {"ConfigError", "FileNotFoundError", "ParseError"} THEN exc
    ELSE "BookMonitorException"

\* load_book_data() failing with exc after `built` calls of build().
LoadRaised(exc, h, cached, built) ==
    [raised |-> LoadFailure(exc), result |-> NoBook, book_data |-> ExceptReset(cached),
     heap |-> h, built |-> built]

\* load_book_data() once build() has given r and the Books alive are h2.
LoadOutcome(r, h2, cached) ==
    IF r.raised # ""
    THEN LoadRaised(r.raised, h2, cached, 1)
    ELSE [raised |-> "",
          result |-> IF r.returned = "book" THEN Len(h2) ELSE NoBook,
          book_data |-> IF r.returned = "book" THEN Len(h2) ELSE NoBook,
          heap |-> h2, built |-> 1]

\* `book_data = builder.build()`, build() having given r.
LoadBuilt(r, h, cached) ==
    LoadOutcome(r, IF r.created THEN AllocBook(h, r.chapters) ELSE h, cached)

\* load_book_data() with the book directory holding d, BOOK_DIRECTORY = cfg,
\* the Books of h alive and book_data = cached: the exception raised ("" if
\* none), what build() returned, book_data and the Books afterwards, and the
\* number of build() calls made.
load_book_data(d, cfg, h, cached) ==
    IF cfg = NotConfigured \/ cfg = ""
    THEN LoadRaised("ConfigError", h, cached, 0)
    ELSE IF InitError(d, cfg) # ""
    THEN LoadRaised("ConfigError", h, cached, 0)
    ELSE LoadBuilt(build(d, cfg, <<>>), h, cached)

\* `if book_data is None` in get_book_data().
NeedsLoad(cached) == cached = NoBook

\* The record of load l with the field telling that get_book_data() made it.
Loaded(l) ==
    [loaded |-> TRUE, raised |-> l.raised, result |-> l.result,
     book_data |-> l.book_data, heap |-> l.heap, built |-> l.built]

\* get_book_data(): the same record as load_book_data(), `loaded` telling
\* whether it called load_book_data(); it returns the book_data field.
get_book_data(d, cfg, h, cached) ==
    IF NeedsLoad(cached)
    THEN Loaded(load_book_data(d, cfg, h, cached))
    ELSE [loaded |-> FALSE, raised |-> "", result |-> NoBook, book_data |-> cached,
          heap |-> h, built |-> 0]

\* The HTTP status refresh() answers with.
RefreshStatus(raised, book) ==
    CASE raised = "FileNotFoundError" -> 404
      [] raised = "ParseError" -> 400
      [] raised # "" -> 500
      [] book = NoBook -> 500
      [] OTHER -> 200

\* refresh() after its load_book_data() gave l and its get_book_data() g:
\* load is the last load_book_data() call made, loaded tells whether
\* get_book_data() made it, builds counts the build() calls.
RefreshAnswer(l, g) ==
    [load |-> IF g.loaded THEN g ELSE l, loaded |-> g.loaded, raised |-> g.raised,
     book_data |-> g.book_data, heap |-> g.heap,
     builds |-> l.built + g.built, status |-> RefreshStatus(g.raised, g.book_data)]

\* refresh() after its load_book_data() gave l.
RefreshLoaded(d, cfg, l) ==
    IF l.raised # ""
    THEN [load |-> l, loaded |-> FALSE, raised |-> l.raised,
          book_data |-> l.book_data, heap |-> l.heap,
          builds |-> l.built, status |-> RefreshStatus(l.raised, NoBook)]
    ELSE RefreshAnswer(l, get_book_data(d, cfg, l.heap, l.book_data))

\* refresh(): load_book_data(), then get_book_data() unless the load raised.
refresh(d, cfg, h, cached) == RefreshLoaded(d, cfg, load_book_data(d, cfg, h, cached))

\* ------------------------------------------------------------------- state
VARIABLES
    dir,            \* the book directory: file name -> File
    constructed,    \* a BookBuilder exists
    directory_path, \* its directory_path
    errors,         \* its errors
    heap,           \* the Book objects created so far, oldest first
    last,           \* the last call: op, path argument, exception, result
    calls,          \* files ChapterParser ran on during the last build()
    builds,         \* number of build() calls so far
    prevErrors,     \* errors as the last build() found them
    chContent,      \* SpecChapter: the chapter file handed to ChapterParser
    chResult,       \* SpecChapter: what ChapterParser.parse gave
    tocResult,      \* SpecToc: what TocParser.parse gave on dir's toc.org
    wcText,         \* SpecWords: the text handed to count_words
    wcResult,       \* SpecWords: what count_words gave
    mkText,         \* SpecMarkup: the text handed to the two functions below
    mkResult,       \* SpecMarkup: what remove_org_markup gave
    lkResult,       \* SpecMarkup: what extract_org_links gave
    book_data,      \* SpecApp: the global book_data of app.py
    config,         \* SpecApp: app.config['BOOK_DIRECTORY']
    lastLoad,       \* SpecApp: the last load_book_data() call
    lastReq         \* SpecApp: the last request served

vars == <<dir, constructed, directory_path, errors, heap, last, calls, builds,
          prevErrors, chContent, chResult, tocResult, wcText, wcResult,
          mkText, mkResult, lkResult, book_data, config, lastLoad, lastReq>>

markupVars == <<mkText, mkResult, lkResult>>

appVars == <<book_data, config, lastLoad, lastReq>>

Last(op, path, raised, returned, book) ==
    [op |-> op, path |-> path, raised |-> raised, returned |-> returned, book |-> book]

\* --------------------------------------------------------- inputs explored
\* Lines of toc.org: the top-level heading, a part heading, and a list item
\* linking one chapter file.
TocLink(f) == WithLinks(Text(2), <<Link("file", f, "Title")>>)
TocLines == {H1("Chapters"), H2("Part I")} \cup {TocLink(f) : f \in ChapterFiles}

\* toc.org: absent, unreadable, whitespace only, or up to MaxTocLines such lines.
TocFiles ==
    {Missing, Unreadable, Readable(<<Blank>>)}
    \cup {Readable(t) : t \in SeqsUpTo(TocLines, MaxTocLines)}

\* A chapter file with a heading naming it, an intro line and one section.
GoodChapter(f) == Readable(<<H1(f), Text(MaxWords), H2("Section"), Text(1)>>)

\* States of chapter file f: absent, unreadable, whitespace only, fine.
ChapterFileStates(f) == {Missing, Unreadable, Readable(<<Blank>>), GoodChapter(f)}

MkDir(toc, a, b, c) ==
    [f \in FileNames |->
        CASE f = "toc.org" -> toc [] f = "a.org" -> a [] f = "b.org" -> b [] OTHER -> c]

Dirs == {MkDir(toc, a, b, c) : toc \in TocFiles, a \in ChapterFileStates("a.org"),
                               b \in ChapterFileStates("b.org"),
                               c \in ChapterFileStates("c.org")}

\* Lines of a chapter file handed to ChapterParser on its own; "* " alone is
\* a top-level heading without a title.
ChapterLines ==
    {H1("T"), H1(""), H2("S"), H2("S2"), Directive, Comment, SrcBegin, SrcEnd, DrawerBegin, DrawerEnd}
    \cup {Text(n) : n \in 0..MaxWords}

ChapterInputs ==
    {Missing, Unreadable} \cup {Readable(t) : t \in SeqsUpTo(ChapterLines, MaxChapterLines)}

Unparsed == [tag |-> "unparsed", exc |-> "", details |-> "", value |-> NoChapter]

\* Lines of a toc.org handed to TocParser on its own: the top-level heading,
\* a part heading, list items with a file link, with an id link and with an
\* id link followed by a file link, second-level headings that carry a file
\* link or an id link, and a list item and a second-level heading whose only
\* link is malformed ("[[file:][E]]", "[[file:a.org]]").  The title of a
\* heading line is all its text after the stars.
TocParseLines ==
    {H1("Chapters"), H2("Part I"),
     WithLinks(Text(2), <<Link("file", "a.org", "A")>>),
     WithLinks(Text(2), <<Link("id", "G1", "B")>>),
     WithLinks(Text(3), <<Link("id", "G1", "B"), Link("file", "a.org", "A")>>),
     WithLinks(H2("[[file:c.org][C]]"), <<Link("file", "c.org", "C")>>),
     WithLinks(H2("[[id:G1][D]]"), <<Link("id", "G1", "D")>>),
     WithLinks(Text(2), <<Link("file", "", "E")>>),
     WithLinks(H2("[[file:a.org]]"), <<Link("file", "a.org", "")>>)}

\* A chapter file that declares guid g1 on a "#+ID:" line, and one that
\* declares it on an ":ID:" line of its property drawer.
DeclaresInKeyword(f) == Readable(<<IdDecl("g1"), H1(f), Text(1)>>)
DeclaresInDrawer(f) == Readable(<<H1(f), DrawerBegin, PropId("g1"), DrawerEnd>>)

TocUnparsed == [tag |-> "unparsed", exc |-> "", details |-> "", items |-> <<>>]

\* Lines of a text handed to count_words on its own.
WordLines ==
    {Directive, Comment, SrcBegin, SrcEnd, QuoteBegin, QuoteEnd, DrawerBegin, DrawerEnd}
    \cup {Text(n) : n \in 0..MaxWords}

NotCounted == [done |-> FALSE, n |-> 0]

\* Pieces of a text handed to remove_org_markup and extract_org_links: plain
\* letters, a slash, the two code markers, the brackets of a link, and the
\* described link [[a][b]] as a whole.
MarkupTokens ==
    {<<"a">>, <<"b">>, <<"/">>, <<"~">>, <<"=">>,
     <<"[", "[">>, <<"]", "[">>, <<"]", "]">>,
     <<"[", "[", "a", "]", "[", "b", "]", "]">>}

RECURSIVE Flatten(_)
Flatten(ts) == IF ts = <<>> THEN <<>> ELSE Head(ts) \o Flatten(Tail(ts))

NotRemoved == [done |-> FALSE, text |-> <<>>]
NotExtracted == [done |-> FALSE, links |-> <<>>]

\* Heading lines of a chapter file handed to ChapterParser to see its titles:
\* with and without a colon in the text, with and without a tag cluster.
TitleHeadings(kind) ==
    {Line(kind, "Plain", tags, 0) : tags \in BOOLEAN}
    \cup {WithColon(Line(kind, "Part 1: Intro", tags, 0)) : tags \in BOOLEAN}

\* ------------------------------------------------------------------ actions
NoCall == Last("none", "", "", "", 0)

\* BookBuilder(p)
Construct(p) ==
    /\ ~constructed
    /\ IF InitError(dir, p) # ""
       THEN /\ last' = Last("init", p, "ConfigError", "", 0)
            /\ UNCHANGED <<constructed, directory_path, errors, markupVars, appVars>>
       ELSE /\ constructed' = TRUE
            /\ directory_path' = p
            /\ errors' = <<>>
            /\ last' = Last("init", p, "", "", 0)
    /\ UNCHANGED <<dir, heap, calls, builds, prevErrors, chContent, chResult,
                   tocResult, wcText, wcResult, markupVars, appVars>>

\* builder.build()
Build ==
    /\ constructed
    /\ builds < MaxBuilds
    /\ \E r \in {build(dir, directory_path, errors)} :
       LET h == IF r.created THEN AllocBook(heap, r.chapters) ELSE heap
       IN  /\ errors' = r.errors
           /\ heap' = h
           /\ calls' = r.calls
           /\ last' = Last("build", directory_path, r.raised, r.returned,
                           IF r.returned = "book" THEN Len(h) ELSE 0)
    /\ builds' = builds + 1
    /\ prevErrors' = errors
    /\ UNCHANGED <<dir, constructed, directory_path, chContent, chResult,
                   tocResult, wcText, wcResult, markupVars, appVars>>

\* The author changes file f of the book directory between two calls.
WriteFile(f, file) ==
    /\ dir[f] # file
    /\ dir' = [dir EXCEPT ![f] = file]
    /\ UNCHANGED <<constructed, directory_path, errors, heap, last, calls, builds,
                   prevErrors, chContent, chResult, tocResult, wcText, wcResult, markupVars, appVars>>

\* ChapterParser(path).parse() on the file chContent.
ParseChapter ==
    /\ chResult = Unparsed
    /\ chResult' = ChapterParser_parse(chContent)
    /\ UNCHANGED <<dir, constructed, directory_path, errors, heap, last, calls, builds,
                   prevErrors, chContent, tocResult, wcText, wcResult, markupVars, appVars>>

\* TocParser(toc_path).parse() on the toc.org of dir.
ParseToc ==
    /\ tocResult = TocUnparsed
    /\ tocResult' = TocParser_parse(dir)
    /\ UNCHANGED <<dir, constructed, directory_path, errors, heap, last, calls, builds,
                   prevErrors, chContent, chResult, wcText, wcResult, markupVars, appVars>>

\* count_words(wcText)
CountWords ==
    /\ ~wcResult.done
    /\ wcResult' = [done |-> TRUE, n |-> count_words(wcText)]
    /\ UNCHANGED <<dir, constructed, directory_path, errors, heap, last, calls, builds,
                   prevErrors, chContent, chResult, tocResult, wcText, markupVars, appVars>>

\* remove_org_markup(mkText)
RemoveMarkup ==
    /\ ~mkResult.done
    /\ mkResult' = [done |-> TRUE, text |-> remove_org_markup(mkText)]
    /\ UNCHANGED <<dir, constructed, directory_path, errors, heap, last, calls, builds,
                   prevErrors, chContent, chResult, tocResult, wcText, wcResult,
                   mkText, lkResult, appVars>>

\* extract_org_links(mkText)
ExtractLinks ==
    /\ ~lkResult.done
    /\ lkResult' = [done |-> TRUE, links |-> extract_org_links(mkText)]
    /\ UNCHANGED <<dir, constructed, directory_path, errors, heap, last, calls, builds,
                   prevErrors, chContent, chResult, tocResult, wcText, wcResult,
                   mkText, mkResult, appVars>>

NoLoad == [called |-> FALSE, raised |-> "", result |-> NoBook, before |-> NoBook]
NoRequest == [op |-> "none", raised |-> "", status |-> 0, builds |-> 0, book |-> NoBook]

LoadRecord(l, before) ==
    [called |-> TRUE, raised |-> l.raised, result |-> l.result, before |-> before]

\* app.config['BOOK_DIRECTORY'] = p
Configure(p) ==
    /\ config # p
    /\ config' = p
    /\ UNCHANGED <<dir, constructed, directory_path, errors, heap, last, calls, builds,
                   prevErrors, chContent, chResult, tocResult, wcText, wcResult,
                   markupVars, book_data, lastLoad, lastReq>>

\* load_book_data() called on its own, as at start-up.
LoadBookData ==
    /\ builds < MaxBuilds
    /\ \E l \in {load_book_data(dir, config, heap, book_data)} :
       /\ book_data' = l.book_data
       /\ heap' = l.heap
       /\ builds' = builds + l.built
       /\ lastLoad' = LoadRecord(l, book_data)
       /\ lastReq' = [op |-> "load", raised |-> l.raised, status |-> 0,
                      builds |-> l.built, book |-> NoBook]
    /\ UNCHANGED <<dir, constructed, directory_path, errors, last, calls,
                   prevErrors, chContent, chResult, tocResult, wcText, wcResult,
                   markupVars, config>>

\* GET /: home() asks get_book_data() for the book.
Home ==
    /\ builds < MaxBuilds
    /\ \E g \in {get_book_data(dir, config, heap, book_data)} :
       /\ book_data' = g.book_data
       /\ heap' = g.heap
       /\ builds' = builds + g.built
       /\ lastLoad' = IF g.loaded THEN LoadRecord(g, book_data) ELSE lastLoad
       /\ lastReq' = [op |-> "home", raised |-> g.raised,
                      status |-> IF g.raised # "" THEN 500 ELSE 200,
                      builds |-> g.built,
                      book |-> IF g.raised # "" THEN NoBook ELSE g.book_data]
    /\ UNCHANGED <<dir, constructed, directory_path, errors, last, calls,
                   prevErrors, chContent, chResult, tocResult, wcText, wcResult,
                   markupVars, config>>

\* POST /api/refresh
Refresh ==
    /\ builds < MaxBuilds
    /\ \E r \in {refresh(dir, config, heap, book_data)} :
       /\ book_data' = r.book_data
       /\ heap' = r.heap
       /\ builds' = builds + r.builds
       /\ lastLoad' = LoadRecord(r.load, IF r.loaded THEN NoBook ELSE book_data)
       /\ lastReq' = [op |-> "refresh", raised |-> r.raised, status |-> r.status,
                      builds |-> r.builds,
                      book |-> IF r.raised # "" THEN NoBook ELSE r.book_data]
    /\ UNCHANGED <<dir, constructed, directory_path, errors, last, calls,
                   prevErrors, chContent, chResult, tocResult, wcText, wcResult,
                   markupVars, config>>

\* ----------------------------------------------------------- specifications
\* The app has served nothing and BOOK_DIRECTORY is not set.
AppIdle ==
    /\ book_data = NoBook
    /\ config = NotConfigured
    /\ lastLoad = NoLoad
    /\ lastReq = NoRequest

\* Neither markup function has run.
MarkupIdle ==
    /\ mkText = <<>>
    /\ mkResult = NotRemoved
    /\ lkResult = NotExtracted

\* No parser has run on its own.
ParsersIdle ==
    /\ chContent = Missing
    /\ chResult = Unparsed
    /\ tocResult = TocUnparsed
    /\ wcText = <<>>
    /\ wcResult = NotCounted
    /\ MarkupIdle

BuilderInit ==
    /\ constructed = FALSE
    /\ directory_path = ""
    /\ errors = <<>>
    /\ heap = <<>>
    /\ last = NoCall
    /\ calls = <<>>
    /\ builds = 0
    /\ prevErrors = <<>>

\* A builder just constructed on the book directory, whose files are drawn
\* from Dirs and which nobody edits.
Init ==
    /\ dir \in Dirs
    /\ constructed = TRUE
    /\ directory_path = "book"
    /\ errors = <<>>
    /\ heap = <<>>
    /\ last = Last("init", "book", "", "", 0)
    /\ calls = <<>>
    /\ builds = 0
    /\ prevErrors = <<>>
    /\ ParsersIdle
    /\ AppIdle

Next == Build

Spec == Init /\ [][Next]_vars

\* Builders constructed on any path, and one on the book directory, which the
\* author keeps editing between builds.
SeqTocFiles ==
    {Missing, Readable(<<Blank>>), Readable(<<Text(1)>>),
     Readable(<<H1("Chapters"), TocLink("a.org"), TocLink("b.org")>>),
     Readable(<<H1("Chapters"), H2("Part I"), TocLink("b.org"), TocLink("a.org")>>)}

SeqWrites ==
    {<<"toc.org", t>> : t \in SeqTocFiles}
    \cup {<<f, c>> : f \in {"a.org", "b.org"}, c \in {Missing, Readable(<<Blank>>)}}
    \cup {<<f, GoodChapter(f)>> : f \in {"a.org", "b.org"}}

InitSeq ==
    /\ dir = MkDir(Readable(<<H1("Chapters"), TocLink("a.org"), TocLink("b.org")>>),
                   GoodChapter("a.org"), Missing, Missing)
    /\ BuilderInit
    /\ AppIdle
    /\ ParsersIdle

NextSeq ==
    \/ \E p \in Paths : Construct(p)
    \/ Build
    \/ \E w \in SeqWrites : WriteFile(w[1], w[2])

SpecSeq == InitSeq /\ [][NextSeq]_vars

\* ChapterParser on its own, on every chapter file of ChapterInputs.
InitChapter ==
    /\ dir = MkDir(Missing, Missing, Missing, Missing)
    /\ BuilderInit
    /\ AppIdle
    /\ chContent \in ChapterInputs
    /\ chResult = Unparsed
    /\ tocResult = TocUnparsed
    /\ wcText = <<>>
    /\ wcResult = NotCounted
    /\ MarkupIdle

NextChapter == ParseChapter

SpecChapter == InitChapter /\ [][NextChapter]_vars

\* ChapterParser on chapter files made of a chapter heading, a line of text
\* and two section headings of TitleHeadings.
InitTitles ==
    /\ dir = MkDir(Missing, Missing, Missing, Missing)
    /\ BuilderInit
    /\ AppIdle
    /\ chContent \in {Readable(<<h1, Text(1), s1, s2>>) :
                         h1 \in TitleHeadings("h1"),
                         s1 \in TitleHeadings("h2"), s2 \in TitleHeadings("h2")}
    /\ chResult = Unparsed
    /\ tocResult = TocUnparsed
    /\ wcText = <<>>
    /\ wcResult = NotCounted
    /\ MarkupIdle

NextTitles == ParseChapter

SpecTitles == InitTitles /\ [][NextTitles]_vars

\* TocParser on its own, on every toc.org of up to MaxTocLines lines of
\* TocParseLines, next to sibling files that may declare the guid.
InitToc ==
    /\ dir \in {MkDir(Readable(t), GoodChapter("a.org"), b, c) :
                    t \in SeqsUpTo(TocParseLines, MaxTocLines),
                    b \in {Unreadable, DeclaresInKeyword("b.org")},
                    c \in {GoodChapter("c.org"), DeclaresInDrawer("c.org")}}
    /\ BuilderInit
    /\ AppIdle
    /\ ParsersIdle

NextToc == ParseToc

SpecToc == InitToc /\ [][NextToc]_vars

\* remove_org_markup and extract_org_links on every text made of up to
\* MaxTokens pieces of MarkupTokens.
InitMarkup ==
    /\ dir = MkDir(Missing, Missing, Missing, Missing)
    /\ BuilderInit
    /\ AppIdle
    /\ chContent = Missing
    /\ chResult = Unparsed
    /\ tocResult = TocUnparsed
    /\ wcText = <<>>
    /\ wcResult = NotCounted
    /\ mkText \in {Flatten(ts) : ts \in SeqsUpTo(MarkupTokens, MaxTokens)}
    /\ mkResult = NotRemoved
    /\ lkResult = NotExtracted

NextMarkup == RemoveMarkup \/ ExtractLinks

SpecMarkup == InitMarkup /\ [][NextMarkup]_vars

\* count_words on its own, on every text of up to MaxChapterLines lines of
\* WordLines.
InitWords ==
    /\ dir = MkDir(Missing, Missing, Missing, Missing)
    /\ BuilderInit
    /\ AppIdle
    /\ chContent = Missing
    /\ chResult = Unparsed
    /\ tocResult = TocUnparsed
    /\ wcText \in SeqsUpTo(WordLines, MaxChapterLines)
    /\ wcResult = NotCounted
    /\ MarkupIdle

NextWords == CountWords

SpecWords == InitWords /\ [][NextWords]_vars

\* The app serving requests on a book directory whose path the configuration
\* may name or not, and whose toc.org the author keeps editing: absent,
\* whitespace only, naming a.org and b.org, or naming only b.org, a file that
\* is not there.
AppWrites ==
    {<<"toc.org", t>> : t \in {Missing, Readable(<<Blank>>),
                                Readable(<<H1("Chapters"), TocLink("a.org"), TocLink("b.org")>>),
                                Readable(<<H1("Chapters"), TocLink("b.org")>>)}}

InitApp ==
    /\ dir = MkDir(Readable(<<H1("Chapters"), TocLink("a.org"), TocLink("b.org")>>),
                   GoodChapter("a.org"), Missing, Missing)
    /\ BuilderInit
    /\ ParsersIdle
    /\ AppIdle

NextApp ==
    \/ \E p \in Paths : Configure(p)
    \/ LoadBookData
    \/ Home
    \/ Refresh
    \/ \E w \in AppWrites : WriteFile(w[1], w[2])

SpecApp == InitApp /\ [][NextApp]_vars

\* ------------------------------------------------------------------ claims
\* Entry e of a TOC names a chapter file that ChapterParser turns into a
\* Chapter in directory d.
Succeeds(d, e) == e.filename # None /\ ChapterParser_parse(d[e.filename]).tag = "value"

\* Entry e names a chapter file that does not become a Chapter.
Fails(d, e) == e.filename # None /\ ChapterParser_parse(d[e.filename]).tag # "value"

\* Diagnostic diag mentions file name f.
Names(diag, f) == \E i \in 1..Len(diag) : diag[i] = f

\* The chapters of the Book the last build() returned.
ReturnedChapters == heap[last.book].chapters

C2_ChapterFailuresDoNotAbort ==
    last.op = "build" =>
        \A toc \in {TocParser_parse(dir)} :
            (toc.tag = "value" /\ \E i \in 1..Len(toc.items) : Succeeds(dir, toc.items[i])) =>
                /\ last.raised = ""
                /\ last.returned = "book"
                /\ last.book \in 1..Len(heap)
                /\ Len(ReturnedChapters) =
                      Cardinality({i \in 1..Len(toc.items) : Succeeds(dir, toc.items[i])})
                /\ \A k \in 1..Len(ReturnedChapters) :
                      \E i \in 1..Len(toc.items) :
                          /\ Succeeds(dir, toc.items[i])
                          /\ ReturnedChapters[k] = ChapterParser_parse(dir[toc.items[i].filename]).value
                /\ \A f \in ChapterFiles :
                      Cardinality({k \in 1..Len(errors) : Names(errors[k], f)}) =
                      Cardinality({i \in 1..Len(toc.items) :
                                      toc.items[i].filename = f /\ Fails(dir, toc.items[i])})

C2_Witness ==
    /\ last.op = "build"
    /\ last.returned = "book"
    /\ Len(ReturnedChapters) = 1
    /\ Len(errors) = 1
    /\ \E f \in ChapterFiles : ~dir[f].exists /\ Names(errors[1], f)

C4_EmptyTocReturnsNone ==
    last.op = "build" =>
        \A toc \in {TocParser_parse(dir)} :
            (toc.tag = "value" /\ toc.items = <<>>) =>
                /\ last.raised = ""
                /\ last.returned = "none"
                /\ last.book = 0
                /\ calls = <<>>
                /\ errors = <<>>

C4_Witness ==
    /\ last.op = "build"
    /\ last.returned = "none"
    /\ calls = <<>>
    /\ TocParser_parse(dir).tag = "value"
    /\ TocParser_parse(dir).items = <<>>
    /\ \E i \in 1..Len(dir["toc.org"].content) : dir["toc.org"].content[i].links # <<>>

\* The number of entries of toc.org in d that yield no chapter.
Unbuilt(d) ==
    LET toc == TocParser_parse(d)
    IN  Cardinality({i \in 1..Len(toc.items) : ~Succeeds(d, toc.items[i])})

\* C5: the error log holds the diagnostics of the most recent build() only: a
\* build() leaves the log it would leave on a fresh builder, with one entry
\* per TOC entry that gave no chapter and none when the TOC error is fatal,
\* and no other call changes the log.
C5_ErrorsAreOfLastBuild ==
    [][IF builds' # builds
       THEN /\ \A r \in {build(dir, directory_path, <<>>)} : errors' = r.errors
            /\ Len(errors') = Unbuilt(dir)
            /\ last'.raised # "" => errors' = <<>>
       ELSE errors' = errors]_vars

C5_Witness ==
    /\ builds >= 2
    /\ prevErrors # <<>>
    /\ last.op = "build"
    /\ last.raised = "FileNotFoundError"
    /\ errors = <<>>

\* The entries of items that parse in d, in TOC order.
SucceedingEntries(d, items) == SelectSeq(items, LAMBDA e : Succeeds(d, e))

\* C6: the chapters of a returned Book are the successfully parsed chapter
\* entries in TOC order: the k-th chapter is the chapter of the k-th entry
\* that parses, whatever fails in between.
C6_ChaptersInTocOrder ==
    (last.op = "build" /\ last.returned = "book") =>
        \A ok \in {SucceedingEntries(dir, TocParser_parse(dir).items)} :
            /\ Len(ReturnedChapters) = Len(ok)
            /\ \A k \in 1..Len(ok) :
                  ReturnedChapters[k] = ChapterParser_parse(dir[ok[k].filename]).value

C6_Witness ==
    /\ last.op = "build"
    /\ last.returned = "book"
    /\ \E items \in {TocParser_parse(dir).items} :
          \E i, j, k \in 1..Len(items) :
              /\ i < j /\ j < k
              /\ Succeeds(dir, items[i]) /\ Fails(dir, items[j]) /\ Succeeds(dir, items[k])
              /\ items[i].filename # items[k].filename
              /\ ReturnedChapters[1].title = items[i].filename
              /\ ReturnedChapters[2].title = items[k].filename

\* Directory d with the part-marker lines taken out of toc.org.
WithoutPartLines(d) ==
    [d EXCEPT !["toc.org"].content = SelectSeq(@, LAMBDA l : ~IsPartLine(l))]

\* C7: build() skips part markers: it runs ChapterParser only on chapter
\* entries, logs nothing for a part marker, and gives the same chapters and
\* the same error log as on the TOC with the part-marker lines removed.
C7_PartMarkersSkipped ==
    last.op = "build" =>
        \A toc \in {TocParser_parse(dir)} :
            toc.tag = "value" =>
                \A r \in {build(WithoutPartLines(dir), directory_path, <<>>)} :
                    /\ Len(calls) = Cardinality({i \in 1..Len(toc.items) :
                                                    toc.items[i].filename # None})
                    /\ Len(errors) = Cardinality({i \in 1..Len(toc.items) :
                                                    Fails(dir, toc.items[i])})
                    /\ errors = r.errors
                    /\ last.returned = "book" =>
                          r.returned = "book" /\ ReturnedChapters = r.chapters

\* C8: a Book an earlier build() produced is never changed by a later call; a
\* build() that returns a Book returns a new one, and every chapter in it is
\* what ChapterParser made of a chapter file of the directory.
C8_FreshBookPerBuild ==
    [][/\ Len(heap') >= Len(heap)
       /\ \A i \in 1..Len(heap) : heap'[i] = heap[i]
       /\ (builds' # builds /\ last'.returned = "book") =>
             /\ Len(heap') = Len(heap) + 1
             /\ last'.book = Len(heap')
             /\ \A k \in 1..Len(heap'[last'.book].chapters) :
                   \E f \in ChapterFiles :
                       ChapterParser_parse(dir[f]) = Return(heap'[last'.book].chapters[k])]_vars

C8_Witness ==
    /\ builds >= 2
    /\ Len(heap) >= 2
    /\ last.returned = "book"
    /\ heap[1].chapters # <<>>
    /\ heap[last.book].chapters # heap[1].chapters

\* C9: BookBuilder(path) raises ConfigError when the path is empty, does not
\* exist or is not a directory, and otherwise succeeds with an empty error
\* log, whether or not the directory holds a toc.org.
C9_ConstructorValidatesPath ==
    last.op = "init" =>
        IF last.path = "" \/ ~path_exists(last.path) \/ ~path_isdir(last.path)
        THEN last.raised = "ConfigError" /\ ~constructed
        ELSE last.raised = "" /\ constructed /\ directory_path = last.path /\ errors = <<>>

C9_Witness ==
    /\ last.op = "init"
    /\ last.raised = ""
    /\ constructed
    /\ ~dir["toc.org"].exists

\* The intro content of a chapter file: the lines after the chapter heading
\* up to the first two-star heading of the chapter, or to its end.
IntroOf(content) ==
    LET start == ChapterStart(content)
        h2 == FirstAt(content, {"h2"}, start + 1)
        stop == IF h2 # 0 /\ h2 < ChapterEnd(content) THEN h2 ELSE ChapterEnd(content)
    IN  Strip(SubSeq(content, start + 1, stop - 1))

\* C10: the word count of a parsed chapter is the word count of its intro
\* content plus the sum of the word counts of its sections.
C10_WordCountIncludesIntro ==
    chResult.tag = "value" =>
        calculate_word_count(chResult.value) =
            count_words(IntroOf(chContent.content))
            + SumSeq([i \in 1..Len(chResult.value.sections) |->
                         chResult.value.sections[i].word_count])

\* The lines of the chapter span of content: from the first one-star heading
\* to the line before the next one, or to the end of the file.
SpanOf(content) ==
    SubSeq(content, FirstAt(content, {"h1"}, 1),
           IF FirstAt(content, {"h1"}, FirstAt(content, {"h1"}, 1) + 1) = 0
           THEN Len(content)
           ELSE FirstAt(content, {"h1"}, FirstAt(content, {"h1"}, 1) + 1) - 1)

\* The two-star heading lines of a run of lines, in file order.
HeadingsOf(lines) == SelectSeq(lines, LAMBDA l : l.kind = "h2")

\* C11: a parsed chapter has exactly one section per two-star heading line of
\* its span, in file order (section i carries the title of the i-th such
\* line) and numbered 0..N-1; text before the first two-star heading makes
\* no section.
C11_OneSectionPerHeading ==
    chResult.tag = "value" =>
        \A hs \in {HeadingsOf(SpanOf(chContent.content))} :
            /\ Len(chResult.value.sections) = Len(hs)
            /\ \A i \in 1..Len(hs) :
                  /\ chResult.value.sections[i].order = i - 1
                  /\ chResult.value.sections[i].title = hs[i].title

\* A chapter with intro text and two sections of different titles.
C11_Witness ==
    /\ chResult.tag = "value"
    /\ Len(chResult.value.sections) = 2
    /\ chResult.value.sections[1].title # chResult.value.sections[2].title
    /\ chContent.content[2].kind = "text" /\ chContent.content[2].words > 0

\* C12: only the first top-level heading block is used: the chapter parsed
\* from a file is the chapter parsed from its span alone (the lines from the
\* first one-star heading to the line before the next one, or to the end), so
\* no line after a second top-level heading adds a section or a word.
C12_OnlyFirstHeadingBlock ==
    chResult.tag = "value" =>
        /\ chResult = ChapterParser_parse(Readable(SpanOf(chContent.content)))
        /\ Len(chResult.value.sections) <= Len(HeadingsOf(SpanOf(chContent.content)))
        /\ calculate_word_count(chResult.value)
             <= SumSeq([i \in 1..Len(SpanOf(chContent.content)) |->
                          WordsOf(SpanOf(chContent.content)[i])])

\* A second top-level heading followed by a section heading and by text.
C12_Witness ==
    /\ chResult.tag = "value"
    /\ \E i, j \in 1..Len(chContent.content) :
          /\ i < j
          /\ chContent.content[i].kind = "h1"
          /\ chContent.content[j].kind = "h1"
          /\ j < Len(chContent.content)
          /\ chContent.content[j + 1].kind = "h2"
    /\ chResult.value.sections = <<>>

\* The file handed to ChapterParser could be read and has been parsed.
ParsedReadable == chResult # Unparsed /\ chContent.exists /\ chContent.readable

\* Some one-star heading line of content has a non-empty title.
HasTitledHeading(content) ==
    \E i \in 1..Len(content) : content[i].kind = "h1" /\ content[i].title # ""

\* C13 as stated: parse returns None, raising nothing, for a file that is
\* empty, whitespace only or without a one-star heading, and returns a
\* Chapter whenever the file contains a one-star heading with a non-empty
\* title.
C13_ChapterWheneverTitledHeading ==
    ParsedReadable =>
        /\ (IsBlankText(chContent.content) \/ FirstAt(chContent.content, {"h1"}, 1) = 0)
              => chResult.tag = "none"
        /\ HasTitledHeading(chContent.content) => chResult.tag = "value"

\* C13: parse returns None, raising nothing, for a file that is empty,
\* whitespace only or without a one-star heading, and returns a Chapter
\* whenever the first one-star heading of the file has a non-empty title,
\* sections or not.
C13_ChapterWheneverFirstHeadingTitled ==
    ParsedReadable =>
        /\ (IsBlankText(chContent.content) \/ FirstAt(chContent.content, {"h1"}, 1) = 0)
              => chResult.tag = "none"
        /\ (/\ FirstAt(chContent.content, {"h1"}, 1) # 0
            /\ chContent.content[FirstAt(chContent.content, {"h1"}, 1)].title # "")
              => chResult.tag = "value"

\* A chapter without sections, from a file whose titled first heading is
\* followed by text and by a heading without a title.
C13_Witness ==
    /\ ParsedReadable
    /\ chResult.tag = "value"
    /\ chResult.value.sections = <<>>
    /\ Len(chContent.content) = 3
    /\ chContent.content[2].kind = "text"
    /\ chContent.content[3] = H1("")

\* C14: parse of a path where no file is fails with the repository's
\* FileNotFoundError, and a file that cannot be read fails with ParseError.
C14_MissingFileIsNotFound ==
    chResult # Unparsed =>
        /\ ~chContent.exists => chResult.tag = "raise" /\ chResult.exc = "FileNotFoundError"
        /\ (chContent.exists /\ ~chContent.readable)
              => chResult.tag = "raise" /\ chResult.exc = "ParseError"

\* The toc.org of dir has been parsed into a list of entries.
TocParsed == tocResult.tag = "value"

\* The first top-level section of a TOC: the lines from its first one-star
\* heading to the line before the next one, or to the end; no line at all
\* when there is no one-star heading.
TocSpan(content) ==
    IF FirstAt(content, {"h1"}, 1) = 0 THEN <<>>
    ELSE SubSeq(content, FirstAt(content, {"h1"}, 1),
                IF FirstAt(content, {"h1"}, FirstAt(content, {"h1"}, 1) + 1) = 0
                THEN Len(content)
                ELSE FirstAt(content, {"h1"}, FirstAt(content, {"h1"}, 1) + 1) - 1)

\* A link with a file: or id: prefix, a target and a description.
WellFormed(link) == link.scheme \in {"file", "id"} /\ link.target # "" /\ link.title # ""

\* The readable .org files of d that declare guid, whatever its case.
Declarers(d, guid) ==
    {f \in FileNames :
        /\ d[f].exists /\ d[f].readable
        /\ \E i \in 1..Len(d[f].content) :
              /\ d[f].content[i].kind \in {"id_decl", "prop_id"}
              /\ Lower(d[f].content[i].title) = Lower(guid)}

RECURSIVE LinksInOrder(_, _, _)
LinksInOrder(d, links, k) ==
    IF k > Len(links) THEN <<>>
    ELSE (IF links[k].scheme = "file" /\ WellFormed(links[k])
          THEN <<Entry(links[k].target, links[k].title)>>
          ELSE IF /\ links[k].scheme = "id" /\ WellFormed(links[k])
                  /\ Declarers(d, links[k].target) # {}
          THEN <<Entry(_resolve_guid_to_filename(d, links[k].target), links[k].title)>>
          ELSE <<>>)
         \o LinksInOrder(d, links, k + 1)

\* The entries of a run of lines in the order their syntax is written.
RECURSIVE SyntaxOrder(_, _, _)
SyntaxOrder(d, lines, i) ==
    IF i > Len(lines) THEN <<>>
    ELSE (IF IsPartLine(lines[i]) THEN <<Entry(None, lines[i].title)>>
          ELSE LinksInOrder(d, lines[i].links, 1))
         \o SyntaxOrder(d, lines, i + 1)

\* C16: the entries come in the order their syntax is written in the first
\* section: earlier lines first, and on one line the link written first.
C16_EntriesInSyntaxOrder ==
    TocParsed => tocResult.items = SyntaxOrder(dir, TocSpan(dir["toc.org"].content), 1)

\* Link k of a line becomes a chapter entry in directory d.
Resolvable(d, link) ==
    WellFormed(link) /\ (link.scheme = "id" => Declarers(d, link.target) # {})

RECURSIVE CountResolvable(_, _, _)
CountResolvable(d, lines, i) ==
    IF i > Len(lines) THEN 0
    ELSE Len(SelectSeq(lines[i].links, LAMBDA k : Resolvable(d, k)))
         + CountResolvable(d, lines, i + 1)

\* The part markers of the link-free second-level headings of a run of lines.
PartsOf(lines) ==
    LET hs == SelectSeq(lines, LAMBDA l : l.kind = "h2" /\ l.links = <<>>)
    IN  [i \in 1..Len(hs) |-> Entry(None, hs[i].title)]

C18_MalformedLinksSkipped ==
    TocParsed =>
        \A span \in {TocSpan(dir["toc.org"].content)} :
            /\ \A j \in 1..Len(tocResult.items) :
                  IF tocResult.items[j].filename = None
                  THEN \E i \in 1..Len(span) :
                          /\ span[i].kind = "h2" /\ span[i].links = <<>>
                          /\ span[i].title = tocResult.items[j].title
                  ELSE \E i \in 1..Len(span) : \E k \in 1..Len(span[i].links) :
                          /\ WellFormed(span[i].links[k])
                          /\ span[i].links[k].title = tocResult.items[j].title
            /\ (\A i \in 1..Len(span) :
                    span[i].kind # "h1"
                    => /\ span[i].links # <<>>
                       /\ \A k \in 1..Len(span[i].links) : ~WellFormed(span[i].links[k]))
                 => tocResult.items = <<>>

\* What the links of the first section should become, line by line: a part
\* marker for a heading without a well-formed link, else the file links and
\* then the id links that some readable file declares.
RECURSIVE ExpectedLinks(_, _, _)
ExpectedLinks(d, lines, i) ==
    IF i > Len(lines) THEN <<>>
    ELSE (IF /\ lines[i].kind = "h2"
             /\ \A k \in 1..Len(lines[i].links) : ~WellFormed(lines[i].links[k])
          THEN <<Link("part", "", lines[i].title)>>
          ELSE SelectSeq(lines[i].links, LAMBDA k : k.scheme = "file" /\ WellFormed(k))
               \o SelectSeq(lines[i].links,
                            LAMBDA k : k.scheme = "id" /\ Resolvable(d, k)))
         \o ExpectedLinks(d, lines, i + 1)

\* C19: resolving guids never fails the parse: a TOC that is not blank
\* parses to a list; an id link becomes an entry naming a readable .org file
\* of the directory that declares the guid on a "#+ID:" or ":ID:" line,
\* whatever the case; an id link nobody declares is dropped and the other
\* entries keep their places; a sibling that cannot be read is passed over.
C19_GuidResolutionNeverFails ==
    tocResult # TocUnparsed =>
        /\ tocResult.tag = "raise" => IsBlankText(dir["toc.org"].content)
        /\ TocParsed =>
              \A exp \in {ExpectedLinks(dir, TocSpan(dir["toc.org"].content), 1)} :
                  /\ Len(tocResult.items) = Len(exp)
                  /\ \A j \in 1..Len(exp) :
                        /\ tocResult.items[j].title = exp[j].title
                        /\ exp[j].scheme = "part" => tocResult.items[j].filename = None
                        /\ exp[j].scheme = "file"
                             => tocResult.items[j].filename = exp[j].target
                        /\ exp[j].scheme = "id"
                             => tocResult.items[j].filename \in Declarers(dir, exp[j].target)

\* b.org cannot be read and c.org declares g1 in its property drawer: the id
\* link written as G1 resolves to c.org, ahead of the file link that follows.
C19_Witness ==
    /\ TocParsed
    /\ dir["b.org"] = Unreadable
    /\ Declarers(dir, "G1") = {"c.org"}
    /\ dir["toc.org"].content
         = <<H1("Chapters"), WithLinks(Text(2), <<Link("id", "G1", "B")>>),
             WithLinks(Text(2), <<Link("file", "a.org", "A")>>)>>
    /\ tocResult.items = <<Entry("c.org", "B"), Entry("a.org", "A")>>

\* Line i of text lies in a fenced block: on or after a begin line whose end
\* line of the same kind comes on or after line i, with no such end line in
\* between.
InBlock(text, i, beginKind, endKind) ==
    \E b \in 1..i : \E e \in i..Len(text) :
        /\ b < e
        /\ text[b].kind = beginKind
        /\ text[e].kind = endKind
        /\ \A m \in (b + 1)..(i - 1) : text[m].kind # endKind

Fenced(text, i) ==
    \/ InBlock(text, i, "src_begin", "src_end")
    \/ InBlock(text, i, "quote_begin", "quote_end")
    \/ InBlock(text, i, "example_begin", "example_end")

\* C20: count_words counts no token of a fenced SRC, EXAMPLE or QUOTE block:
\* the count is at most the number of tokens on the lines outside the blocks,
\* so a text that is one fenced block counts 0.
C20_FencedBlocksExcluded ==
    wcResult.done =>
        wcResult.n <= SumSeq([i \in 1..Len(wcText) |->
                                IF Fenced(wcText, i) THEN 0 ELSE WordsOf(wcText[i])])

\* len(t.split()) of the raw text.
RawTokens(text) == SumSeq([i \in 1..Len(text) |-> WordsOf(text[i])])

\* C21: count_words never counts more than the whitespace-separated tokens
\* of the raw text.
C21_CountAtMostRawTokens ==
    wcResult.done => wcResult.n <= RawTokens(wcText)

\* A text with a comment and with words: some tokens are stripped, some stay.
C21_Witness ==
    /\ wcResult.done
    /\ \E i \in 1..Len(wcText) : wcText[i].kind = "comment"
    /\ wcResult.n > 0
    /\ wcResult.n < RawTokens(wcText)

\* The diagnostics of the log that are about a chapter file, and the chapter
\* entries of items that gave no chapter in d, both in order.
ChapterDiagnostics == SelectSeq(errors, LAMBDA e : Len(e) >= 2 /\ e[2] \in ChapterFiles)
FailingEntries(d, items) == SelectSeq(items, LAMBDA e : Fails(d, e))

\* C24 as stated: every diagnostic for a failing chapter entry starts with
\* the entry's file name, followed by ": " and the message, the "no content"
\* diagnostic too.
C24_DiagnosticIsFilenameColonMessage ==
    last.op = "build" =>
        \A k \in 1..Len(errors) :
            (\E f \in ChapterFiles : Names(errors[k], f))
            => /\ errors[k][1] \in ChapterFiles
               /\ errors[k][2] = ": "
               /\ Len(errors[k]) >= 3

\* C24: the k-th diagnostic about a chapter file belongs to the k-th failing
\* chapter entry and reads "Chapter <filename>: <message>", where <message>
\* is the text of the exception, or "Chapter <filename> returned no content"
\* (no colon) when the file parsed to nothing.
C24_DiagnosticIsChapterFilenameMessage ==
    last.op = "build" =>
        \A failing \in {FailingEntries(dir, TocParser_parse(dir).items)} :
            /\ Len(ChapterDiagnostics) = Len(failing)
            /\ \A k \in 1..Len(failing) :
                  \A r \in {ChapterParser_parse(dir[failing[k].filename])} :
                      /\ ChapterDiagnostics[k][1] = "Chapter "
                      /\ ChapterDiagnostics[k][2] = failing[k].filename
                      /\ r.tag = "none"
                           => ChapterDiagnostics[k]
                                = <<"Chapter ", failing[k].filename, " returned no content">>
                      /\ r.tag = "raise"
                           => ChapterDiagnostics[k]
                                = <<"Chapter ", failing[k].filename, ": ",
                                    "Parse error in ", directory_path, "/",
                                    failing[k].filename, ": ", r.details>>

\* A build that logged a chapter without content and then a chapter that
\* could not be read.
C24_Witness ==
    /\ last.op = "build"
    /\ Len(ChapterDiagnostics) >= 2
    /\ Len(ChapterDiagnostics[1]) = 3
    /\ ChapterDiagnostics[1][3] = " returned no content"
    /\ ChapterDiagnostics[2][3] = ": "

\* C25: build() raises nothing and returns None when toc.org is missing,
\* empty or otherwise makes TocParser raise.
C25_TocFailureReturnsNone ==
    last.op = "build" =>
        (TocParser_parse(dir).tag = "raise"
         => last.raised = "" /\ last.returned = "none")

\* C28: after a build() that got past the TOC stage, the chapters added to
\* the Book plus the diagnostics logged are as many as the chapter entries
\* (entries with a file name) of the TOC.
C28_EveryEntryAccountedOnce ==
    last.op = "build" =>
        \A toc \in {TocParser_parse(dir)} :
            (toc.tag = "value" /\ toc.items # <<>>)
            => /\ heap # <<>>
               /\ Len(heap[Len(heap)].chapters) + Len(errors)
                    = Len(SelectSeq(toc.items, LAMBDA e : e.filename # None))

\* C26: the title of the chapter and of every section is the text of its
\* heading without the trailing tag cluster, colon in the text or not.
C26_TitleWithoutTagCluster ==
    chResult.tag = "value" =>
        \A span \in {SpanOf(chContent.content)} :
            /\ chResult.value.title = span[1].title
            /\ \A hs \in {HeadingsOf(span)} :
                  /\ Len(chResult.value.sections) = Len(hs)
                  /\ \A i \in 1..Len(hs) : chResult.value.sections[i].title = hs[i].title

\* A described link [[url][desc]] written at position i of t, url and desc
\* being non-empty and free of brackets; and a bare link [[url]] likewise.
DescribedLinkAt(t, i) ==
    IF ~(i + 1 <= Len(t) /\ t[i] = "[" /\ t[i + 1] = "[") THEN NoMatch
    ELSE LET j == NextChar(t, {"[", "]"}, i + 2)
             k == IF j = 0 THEN 0 ELSE NextChar(t, {"[", "]"}, j + 2)
         IN  IF /\ j > i + 2 /\ t[j] = "]"
                /\ j + 1 <= Len(t) /\ t[j + 1] = "["
                /\ k > j + 2 /\ t[k] = "]"
                /\ k + 1 <= Len(t) /\ t[k + 1] = "]"
             THEN [ok |-> TRUE, url |-> SubSeq(t, i + 2, j - 1),
                   desc |-> SubSeq(t, j + 2, k - 1), end |-> k + 1]
             ELSE NoMatch

BareLinkAt(t, i) ==
    IF ~(i + 1 <= Len(t) /\ t[i] = "[" /\ t[i + 1] = "[") THEN NoMatch
    ELSE LET j == NextChar(t, {"[", "]"}, i + 2)
         IN  IF j > i + 2 /\ t[j] = "]" /\ j + 1 <= Len(t) /\ t[j + 1] = "]"
             THEN [ok |-> TRUE, url |-> SubSeq(t, i + 2, j - 1),
                   desc |-> SubSeq(t, i + 2, j - 1), end |-> j + 1]
             ELSE NoMatch

\* The described links of t from position i on, in appearance order, and its
\* bare links, as (url, description) pairs.
RECURSIVE DescribedLinks(_, _)
DescribedLinks(t, i) ==
    IF i > Len(t) THEN <<>>
    ELSE IF DescribedLinkAt(t, i).ok
    THEN <<<<DescribedLinkAt(t, i).url, DescribedLinkAt(t, i).desc>>>>
         \o DescribedLinks(t, DescribedLinkAt(t, i).end + 1)
    ELSE DescribedLinks(t, i + 1)

RECURSIVE BareLinks(_, _)
BareLinks(t, i) ==
    IF i > Len(t) THEN <<>>
    ELSE IF BareLinkAt(t, i).ok
    THEN <<<<BareLinkAt(t, i).url, BareLinkAt(t, i).url>>>>
         \o BareLinks(t, BareLinkAt(t, i).end + 1)
    ELSE BareLinks(t, i + 1)

\* C22: extract_links gives the described links [[url][desc]] of the text in
\* appearance order, then its bare links [[url]] in appearance order as
\* (url, url), leaving out a bare link whose url a described link has.
C22_DescribedThenUncapturedBare ==
    lkResult.done =>
        \A ds \in {DescribedLinks(mkText, 1)} :
            lkResult.links
              = ds \o SelectSeq(BareLinks(mkText, 1),
                                LAMBDA b : \A n \in 1..Len(ds) : ds[n][1] # b[1])

\* Text t has an emphasis span of marker x: two x with something in between.
HasSpan(t, x) ==
    \E i, j \in 1..Len(t) : i + 1 < j /\ t[i] = x /\ t[j] = x

\* Text t has a [[...]] link.
HasLink(t) ==
    \E i, j \in 1..Len(t) :
        /\ i + 2 <= j /\ j + 1 <= Len(t)
        /\ t[i] = "[" /\ t[i + 1] = "[" /\ t[j] = "]" /\ t[j + 1] = "]"

\* C23: remove_markup gives back unchanged every text without an emphasis
\* span (*..*, /../, _.._, +..+, ~..~, =..=) and without a [[...]] link.
C23_IdentityOnPlainText ==
    (/\ mkResult.done
     /\ \A x \in {"*", "/", "_", "+", "~", "="} : ~HasSpan(mkText, x)
     /\ ~HasLink(mkText))
    => mkResult.text = mkText

\* C27: remove_markup turns a text that is one described link [[url][desc]]
\* into desc and a text that is one bare link [[url]] into url, character
\* for character, whatever characters url and desc are made of.
C27_LinkReplacedExactly ==
    mkResult.done =>
        /\ (DescribedLinkAt(mkText, 1).ok /\ DescribedLinkAt(mkText, 1).end = Len(mkText))
             => mkResult.text = DescribedLinkAt(mkText, 1).desc
        /\ (BareLinkAt(mkText, 1).ok /\ BareLinkAt(mkText, 1).end = Len(mkText))
             => mkResult.text = BareLinkAt(mkText, 1).url

\* C29: after any sequence of load_book_data() calls, whoever made them, the
\* global book_data is what the most recent load's build() returned (a Book or
\* None) if that load returned, and None if it raised, also when an earlier
\* load had cached a Book.
C29_CacheIsLastLoadOutcome ==
    lastLoad.called =>
        book_data = (IF lastLoad.raised # "" THEN NoBook ELSE lastLoad.result)

\* A load raised while a Book of an earlier load was cached, and the cache is
\* empty now.
C29_Witness ==
    /\ lastLoad.called
    /\ lastLoad.raised # ""
    /\ lastLoad.before # NoBook
    /\ book_data = NoBook

\* C30: a POST /api/refresh request that gets as far as build() runs it
\* exactly once, whether build() gives a Book, None or an exception.
C30_RefreshBuildsOnce ==
    (lastReq.op = "refresh" /\ lastReq.builds >= 1) => lastReq.builds = 1

====
